---- MODULE Spec2Model ----
(***************************************************************************)
(* Model of "svcat provision" (cmd/svcat/instance/provision_cmd.go):       *)
(* ProvisionCmd.Validate, ProvisionCmd.Run / Provision, and the            *)
(* collaborators they call (the parameters package parsers, the command    *)
(* PreRunE / RunE glue and the WaitForInstance completion poller).         *)
(*                                                                         *)
(* Strings that are parsed are sequences of one-character strings; maps    *)
(* are sets of <<key, value>> pairs with unique keys; a Go nil map /       *)
(* interface is NilMap; a nil error is NoErr.                              *)
(***************************************************************************)
EXTENDS Integers, Sequences, FiniteSets, TLC

\* ------------------------------------------------------------------ bounds
\* most --param tokens given on the command line
MaxParams == 2
\* most --secret tokens given on the command line
MaxSecrets == 2
\* largest --interval and --timeout (in ticks of the model clock)
MaxInterval == 2
MaxTimeout == 3

\* ------------------------------------------------------------- input sets
SeqsUpTo(S, n) == UNION {[1..k -> S] : k \in 0..n}

\* positional arguments: none, the instance name, the name and an extra one
ArgLists == {<< >>, <<"bananainstance">>, <<"bananainstance", "extra">>}

\* --param tokens: well formed (with a duplicate name), no "=", empty name
ParamTokens == {<<"a", "=", "b">>, <<"a", "=", "c">>, <<"b">>, <<"=", "b">>}

\* --secret tokens: well formed (with a duplicate name), not MAP[KEY]
SecretTokens == {<<"a", "[", "b", "]">>, <<"a", "[", "c", "]">>, <<"a", "=", "b">>}

\* --params-json values: unset, an object, the empty object, not JSON,
\* a JSON value that is not an object
JsonDocs == {<< >>, <<"{", "a", ":", "b", "}">>, <<"{", "}">>,
             <<"a", "=", "b">>, <<"a">>}

\* ------------------------------------------------------------ Go values
NoErr == << >>
NilMap == [isnil |-> TRUE, m |-> {}]
Map(m) == [isnil |-> FALSE, m |-> m]
Put(m, k, v) == {p \in m : p[1] # k} \cup {<<k, v>>}

\* index of the first occurrence of ch in s, 0 if there is none
IndexOf(s, ch) ==
  IF \E i \in 1..Len(s) : s[i] = ch
  THEN CHOOSE i \in 1..Len(s) : s[i] = ch /\ \A j \in 1..(i-1) : s[j] # ch
  ELSE 0

Letters == {"a", "b", "c"}

\* ------------------------------------------------ parameters package
\* ParseVariableAssignments: split each token on the first "="; fail when
\* there is no "=" or the name is empty; a later duplicate name overwrites.
RECURSIVE AssignTokens(_, _)
AssignTokens(tokens, acc) ==
  IF tokens = << >> THEN [val |-> Map(acc), err |-> NoErr]
  ELSE LET p == Head(tokens)
           i == IndexOf(p, "=")
       IN IF i < 2
          THEN [val |-> NilMap, err |-> <<"MalformedAssignment", p>>]
          ELSE AssignTokens(Tail(tokens),
                            Put(acc, SubSeq(p, 1, i-1), SubSeq(p, i+1, Len(p))))

ParseVariableAssignments(tokens) == AssignTokens(tokens, {})

\* ParseVariableJSON: decode one JSON object  { k:v , k:v ... }  (a letter
\* stands for a quoted string); anything else is InvalidJSON.
RECURSIVE JsonMembers(_, _, _)
JsonMembers(doc, body, acc) ==
  IF Len(body) < 3 \/ body[1] \notin Letters \/ body[2] # ":" \/ body[3] \notin Letters
  THEN [val |-> NilMap, err |-> <<"InvalidJSON", doc>>]
  ELSE LET acc2 == Put(acc, <<body[1]>>, <<body[3]>>)
       IN IF Len(body) = 3 THEN [val |-> Map(acc2), err |-> NoErr]
          ELSE IF body[4] # ","
          THEN [val |-> NilMap, err |-> <<"InvalidJSON", doc>>]
          ELSE JsonMembers(doc, SubSeq(body, 5, Len(body)), acc2)

ParseVariableJSON(doc) ==
  IF Len(doc) < 2 \/ doc[1] # "{" \/ doc[Len(doc)] # "}"
  THEN [val |-> NilMap, err |-> <<"InvalidJSON", doc>>]
  ELSE IF Len(doc) = 2 THEN [val |-> Map({}), err |-> NoErr]
  ELSE JsonMembers(doc, SubSeq(doc, 2, Len(doc) - 1), {})

\* ParseKeyMaps: each token is name[key], name and key non-empty and free
\* of "[" and "]"; the error echoes the offending token.
WellFormedKeyMap(p) ==
  LET i == IndexOf(p, "[")
  IN /\ i > 1
     /\ Len(p) > i + 1
     /\ p[Len(p)] = "]"
     /\ \A j \in 1..(Len(p) - 1) : j # i => p[j] \notin {"[", "]"}

RECURSIVE KeyMapTokens(_, _)
KeyMapTokens(tokens, acc) ==
  IF tokens = << >> THEN [val |-> Map(acc), err |-> NoErr]
  ELSE LET p == Head(tokens)
           i == IndexOf(p, "[")
       IN IF ~WellFormedKeyMap(p)
          THEN [val |-> NilMap, err |-> <<"MalformedSecretReference", p>>]
          ELSE KeyMapTokens(Tail(tokens),
                            Put(acc, SubSeq(p, 1, i-1), SubSeq(p, i+1, Len(p) - 1)))

ParseKeyMaps(tokens) == KeyMapTokens(tokens, {})

\* ------------------------------------------------------------- errors
ErrMissingInstanceName == <<"an instance name is required">>
ErrConflictingParamSources == <<"--params-json cannot be used with --param">>
ErrInvalidParamsJson(e) == <<"invalid --params-json value", e>>
ErrInvalidParam(e) == <<"invalid --param value", e>>
ErrInvalidSecret(e) == <<"invalid --secret value", e>>

\* errors the collaborator's Provision can return
ProvisionErrors == {<<"ProvisionFailed: already exists">>,
                    <<"ProvisionFailed: forbidden">>}

ErrPollTimedOut == <<"PollTimedOut">>
ErrPollQueryFailed == <<"PollQueryFailed">>
ErrPollCancelled == <<"PollCancelled">>

\* ---------------------------------------------------------- snapshots
NoInstance == << >>
ProvisionedInstance == <<"provisioned">>
PolledInstance(k) == <<"polled", k>>

StatusLine == [kind |-> "status", instance |-> NoInstance]
InstanceDetails(inst) == [kind |-> "details", instance |-> inst]

VARIABLES
  args, JsonParams, RawParams, RawSecrets, Wait, Interval, Timeout,
  InstanceName, Params, Secrets,
  pc, validateErr, parsed,
  provRet, instance, runErr, out, calls,
  pollInterval, pollTimeout, now, queryTimes, lastQuery, lastSnap,
  pollSnap, pollErr

inputs == <<args, JsonParams, RawParams, RawSecrets, Wait, Interval, Timeout>>
fields == <<InstanceName, Params, Secrets>>
validation == <<validateErr, parsed>>
running == <<provRet, instance, runErr, out, calls>>
pollArgs == <<pollInterval, pollTimeout>>
polling == <<now, queryTimes, lastQuery, lastSnap, pollSnap, pollErr>>
vars == <<inputs, fields, validation, running, pollArgs, polling, pc>>

\* The command after construction and flag binding: the flag fields hold the
\* command line, the request fields are zero, nothing has run.
Init ==
  /\ args \in ArgLists
  /\ JsonParams \in JsonDocs
  /\ RawParams \in SeqsUpTo(ParamTokens, MaxParams)
  /\ RawSecrets \in SeqsUpTo(SecretTokens, MaxSecrets)
  /\ Wait \in BOOLEAN
  /\ Interval \in (IF Wait THEN 1..MaxInterval ELSE {0})
  /\ Timeout \in (IF Wait THEN 1..MaxTimeout ELSE {0})
  /\ InstanceName = ""
  /\ Params = NilMap
  /\ Secrets = NilMap
  /\ pc = "start"
  /\ validateErr = NoErr
  /\ parsed = << >>
  /\ provRet = [called |-> FALSE, instance |-> NoInstance, err |-> NoErr]
  /\ instance = NoInstance
  /\ runErr = NoErr
  /\ out = << >>
  /\ calls = << >>
  /\ pollInterval = 0
  /\ pollTimeout = 0
  /\ now = 0
  /\ queryTimes = << >>
  /\ lastQuery = "none"
  /\ lastSnap = NoInstance
  /\ pollSnap = NoInstance
  /\ pollErr = NoErr

\* ------------------------------------------------- ProvisionCmd.Validate
\* The command as Validate sees it, with the trace of parser calls.
Cmd == [JsonParams |-> JsonParams, RawParams |-> RawParams,
        RawSecrets |-> RawSecrets, InstanceName |-> InstanceName,
        Params |-> Params, Secrets |-> Secrets, parsed |-> parsed,
        err |-> NoErr]

Return(c, e) == [c EXCEPT !.err = e]

\* lines 103-113: the parameter source that is present
ParseParams(c) ==
  IF c.JsonParams # << >>
  THEN LET r == ParseVariableJSON(c.JsonParams)
       IN [name |-> "ParseVariableJSON", val |-> r.val,
           err |-> IF r.err = NoErr THEN NoErr ELSE ErrInvalidParamsJson(r.err)]
  ELSE LET r == ParseVariableAssignments(c.RawParams)
       IN [name |-> "ParseVariableAssignments", val |-> r.val,
           err |-> IF r.err = NoErr THEN NoErr ELSE ErrInvalidParam(r.err)]

\* lines 115-118
ParseSecrets(c) ==
  LET r == ParseKeyMaps(c.RawSecrets)
  IN [name |-> "ParseKeyMaps", val |-> r.val,
      err |-> IF r.err = NoErr THEN NoErr ELSE ErrInvalidSecret(r.err)]

\* mutant: a malformed --secret is not reported
ValidateCmd_SecretErrDropped(a, c) ==
  IF Len(a) = 0 THEN Return(c, ErrMissingInstanceName)
  ELSE LET c1 == [c EXCEPT !.InstanceName = a[1]]
       IN IF c1.JsonParams # << >> /\ Len(c1.RawParams) > 0
          THEN Return(c1, ErrConflictingParamSources)
          ELSE LET pr == ParseParams(c1)
                   c2 == [c1 EXCEPT !.Params = pr.val,
                                    !.parsed = Append(@, pr.name)]
               IN IF pr.err # NoErr THEN Return(c2, pr.err)
                  ELSE LET sr == ParseSecrets(c2)
                           c3 == [c2 EXCEPT !.Secrets = sr.val,
                                            !.parsed = Append(@, sr.name)]
                       IN Return(c3, NoErr)

\* mutant: the mutual-exclusion check runs after the parameters are parsed
ValidateCmd_ConflictAfterParse(a, c) ==
  IF Len(a) = 0 THEN Return(c, ErrMissingInstanceName)
  ELSE LET c1 == [c EXCEPT !.InstanceName = a[1]]
           pr == ParseParams(c1)
           c2 == [c1 EXCEPT !.Params = pr.val, !.parsed = Append(@, pr.name)]
       IN IF pr.err # NoErr THEN Return(c2, pr.err)
          ELSE IF c2.JsonParams # << >> /\ Len(c2.RawParams) > 0
          THEN Return(c2, ErrConflictingParamSources)
          ELSE LET sr == ParseSecrets(c2)
                   c3 == [c2 EXCEPT !.Secrets = sr.val,
                                    !.parsed = Append(@, sr.name)]
               IN IF sr.err # NoErr THEN Return(c3, sr.err)
                  ELSE Return(c3, NoErr)

\* mutant: --params-json is ignored, the raw assignments are always parsed
ValidateCmd_JsonIgnored(a, c) ==
  IF Len(a) = 0 THEN Return(c, ErrMissingInstanceName)
  ELSE LET c1 == [c EXCEPT !.InstanceName = a[1]]
       IN IF c1.JsonParams # << >> /\ Len(c1.RawParams) > 0
          THEN Return(c1, ErrConflictingParamSources)
          ELSE LET pr == ParseParams([c1 EXCEPT !.JsonParams = << >>])
                   c2 == [c1 EXCEPT !.Params = pr.val,
                                    !.parsed = Append(@, pr.name)]
               IN IF pr.err # NoErr THEN Return(c2, pr.err)
                  ELSE LET sr == ParseSecrets(c2)
                           c3 == [c2 EXCEPT !.Secrets = sr.val,
                                            !.parsed = Append(@, sr.name)]
                       IN IF sr.err # NoErr THEN Return(c3, sr.err)
                          ELSE Return(c3, NoErr)

\* mutant: the secrets are parsed before the parameters
ValidateCmd_SecretsFirst(a, c) ==
  IF Len(a) = 0 THEN Return(c, ErrMissingInstanceName)
  ELSE LET c1 == [c EXCEPT !.InstanceName = a[1]]
       IN IF c1.JsonParams # << >> /\ Len(c1.RawParams) > 0
          THEN Return(c1, ErrConflictingParamSources)
          ELSE LET sr == ParseSecrets(c1)
                   c2 == [c1 EXCEPT !.Secrets = sr.val,
                                    !.parsed = Append(@, sr.name)]
               IN IF sr.err # NoErr THEN Return(c2, sr.err)
                  ELSE LET pr == ParseParams(c2)
                           c3 == [c2 EXCEPT !.Params = pr.val,
                                            !.parsed = Append(@, pr.name)]
                       IN IF pr.err # NoErr THEN Return(c3, pr.err)
                          ELSE Return(c3, NoErr)

\* mutant: the request fields are assigned only when every check has passed
ValidateCmd_AssignAtEnd(a, c) ==
  IF Len(a) = 0 THEN Return(c, ErrMissingInstanceName)
  ELSE IF c.JsonParams # << >> /\ Len(c.RawParams) > 0
  THEN Return(c, ErrConflictingParamSources)
  ELSE LET pr == ParseParams(c)
           c2 == [c EXCEPT !.parsed = Append(@, pr.name)]
       IN IF pr.err # NoErr THEN Return(c2, pr.err)
          ELSE LET sr == ParseSecrets(c2)
                   c3 == [c2 EXCEPT !.parsed = Append(@, sr.name)]
               IN IF sr.err # NoErr THEN Return(c3, sr.err)
                  ELSE Return([c3 EXCEPT !.InstanceName = a[1],
                                         !.Params = pr.val,
                                         !.Secrets = sr.val], NoErr)

\* Validate(args) on command c: the command afterwards, with the error
\* returned in .err (lines 91-121)
ValidateCmd(a, c) ==
  IF Len(a) = 0 THEN Return(c, ErrMissingInstanceName)
  ELSE LET c1 == [c EXCEPT !.InstanceName = a[1]]
       IN IF c1.JsonParams # << >> /\ Len(c1.RawParams) > 0
          THEN Return(c1, ErrConflictingParamSources)
          ELSE LET pr == ParseParams(c1)
                   c2 == [c1 EXCEPT !.Params = pr.val,
                                    !.parsed = Append(@, pr.name)]
               IN IF pr.err # NoErr THEN Return(c2, pr.err)
                  ELSE LET sr == ParseSecrets(c2)
                           c3 == [c2 EXCEPT !.Secrets = sr.val,
                                            !.parsed = Append(@, sr.name)]
                       IN IF sr.err # NoErr THEN Return(c3, sr.err)
                          ELSE Return(c3, NoErr)

Validate(a) ==
  LET c == ValidateCmd(a, Cmd)
  IN /\ InstanceName' = c.InstanceName
     /\ Params' = c.Params
     /\ Secrets' = c.Secrets
     /\ parsed' = c.parsed
     /\ validateErr' = c.err

\* command.PreRunE: cobra runs Validate on the positional arguments and
\* goes on to RunE only when it returned no error.
PreRunE ==
  /\ pc = "start"
  /\ Validate(args)
  /\ pc' = IF validateErr' = NoErr THEN "validated" ELSE "done"
  /\ UNCHANGED <<inputs, running, pollArgs, polling>>

\* ------------------------------------------------ ProvisionCmd.Provision
\* what the collaborator's Provision can return
ProvisionReturns ==
  {[called |-> TRUE, instance |-> ProvisionedInstance, err |-> NoErr]}
  \cup {[called |-> TRUE, instance |-> NoInstance, err |-> e] : e \in ProvisionErrors}

\* mutant: the collaborator's error is swallowed and the (nil) instance printed
ProvisionFailed_Swallowed(r) ==
  /\ calls' = Append(calls, "Provision")
  /\ instance' = r.instance
  /\ out' = Append(out, InstanceDetails(r.instance))
  /\ runErr' = NoErr
  /\ pc' = "done"
  /\ UNCHANGED <<pollArgs, polling>>

\* lines 134-137: Provision returned an error
ProvisionFailed(r) ==
  /\ calls' = Append(calls, "Provision")
  /\ instance' = r.instance
  /\ runErr' = r.err
  /\ pc' = "done"
  /\ UNCHANGED <<out, pollArgs, polling>>

\* mutant: the interval and the timeout are passed in the wrong order
WaitArgs_Swapped == <<Timeout, Interval>>

\* line 141: the interval and timeout handed to WaitForInstance
WaitArgs == <<Interval, Timeout>>

\* lines 139-141: wait requested; print the status line and start polling
ProvisionThenWait(r) ==
  /\ calls' = calls \o <<"Provision", "WaitForInstance">>
  /\ instance' = r.instance
  /\ out' = Append(out, StatusLine)
  /\ pollInterval' = WaitArgs[1]
  /\ pollTimeout' = WaitArgs[2]
  /\ pc' = "polling"
  /\ UNCHANGED <<runErr, polling>>

\* mutant: the status line is printed whether or not --wait was given
ProvisionNoWait_StatusLine(r) ==
  /\ calls' = Append(calls, "Provision")
  /\ instance' = r.instance
  /\ out' = out \o <<StatusLine, InstanceDetails(r.instance)>>
  /\ runErr' = NoErr
  /\ pc' = "done"
  /\ UNCHANGED <<pollArgs, polling>>

\* lines 152-153: no wait; print the instance and return nil
ProvisionNoWait(r) ==
  /\ calls' = Append(calls, "Provision")
  /\ instance' = r.instance
  /\ out' = Append(out, InstanceDetails(r.instance))
  /\ runErr' = NoErr
  /\ pc' = "done"
  /\ UNCHANGED <<pollArgs, polling>>

\* lines 127-141, 152-153: Provision up to its return or to the blocking
\* WaitForInstance call
Provision ==
  \E r \in ProvisionReturns :
    /\ provRet' = r
    /\ IF r.err # NoErr THEN ProvisionFailed(r)
       ELSE IF Wait THEN ProvisionThenWait(r)
       ELSE ProvisionNoWait(r)

\* lines 123-125
Run == Provision

\* command.RunE: cobra runs Run once Validate has passed
RunE ==
  /\ pc = "validated"
  /\ Run
  /\ UNCHANGED <<inputs, fields, validation>>

\* mutant: the instance is printed only when polling succeeded
AfterWait_PrintOnSuccess ==
  /\ pc = "polled"
  /\ instance' = IF pollErr = NoErr THEN pollSnap ELSE instance
  /\ out' = IF pollErr = NoErr THEN Append(out, InstanceDetails(instance')) ELSE out
  /\ runErr' = pollErr
  /\ pc' = "done"
  /\ UNCHANGED <<inputs, fields, validation, provRet, calls, pollArgs, polling>>

\* mutant: the poller's instance replaces Provision's whatever the error
AfterWait_AlwaysFinal ==
  /\ pc = "polled"
  /\ instance' = pollSnap
  /\ out' = Append(out, InstanceDetails(instance'))
  /\ runErr' = pollErr
  /\ pc' = "done"
  /\ UNCHANGED <<inputs, fields, validation, provRet, calls, pollArgs, polling>>

\* lines 141-149: WaitForInstance has returned (pollSnap, pollErr)
AfterWait ==
  /\ pc = "polled"
  /\ instance' = IF pollErr = NoErr THEN pollSnap ELSE instance
  /\ out' = Append(out, InstanceDetails(instance'))
  /\ runErr' = pollErr
  /\ pc' = "done"
  /\ UNCHANGED <<inputs, fields, validation, provRet, calls, pollArgs, polling>>

\* ------------------------------------------------------ WaitForInstance
\* One round of the completion poller: sleep one interval, query the
\* instance; return on a terminal status or once the deadline has passed.
PollRound ==
  /\ pc = "polling"
  /\ \E q \in {"notready", "terminal", "error"} :
       LET t == now + pollInterval
           snap == IF q = "error" THEN lastSnap
                   ELSE PolledInstance(Len(queryTimes) + 1)
           deadlinePassed == t >= pollTimeout
       IN /\ now' = t
          /\ queryTimes' = Append(queryTimes, t)
          /\ lastQuery' = q
          /\ lastSnap' = snap
          /\ IF q = "terminal"
             THEN pc' = "polled" /\ pollSnap' = snap /\ pollErr' = NoErr
             ELSE IF deadlinePassed
             THEN /\ pc' = "polled"
                  /\ pollSnap' = snap
                  /\ pollErr' = IF q = "error" THEN ErrPollQueryFailed
                                ELSE ErrPollTimedOut
             ELSE pc' = "polling" /\ UNCHANGED <<pollSnap, pollErr>>
  /\ UNCHANGED <<inputs, fields, validation, running, pollArgs>>

\* The caller cancels the wait: return at once with the last snapshot.
PollCancel ==
  /\ pc = "polling"
  /\ pc' = "polled"
  /\ pollSnap' = lastSnap
  /\ pollErr' = ErrPollCancelled
  /\ UNCHANGED <<inputs, fields, validation, running, pollArgs,
                 now, queryTimes, lastQuery, lastSnap>>

Next == PreRunE \/ RunE \/ PollRound \/ PollCancel \/ AfterWait

Spec == Init /\ [][Next]_vars

\* Commands run with --wait and one well-formed parameter source.
InitWait ==
  /\ Init
  /\ Wait
  /\ args = <<"bananainstance">>
  /\ Len(RawParams) <= 1 /\ ParseVariableAssignments(RawParams).err = NoErr
  /\ RawSecrets = << >>
  /\ JsonParams = << >>

\* The command is one sequential flow: whichever step is enabled is taken.
FairSpec == InitWait /\ [][Next]_vars /\ WF_vars(Next)

TypeOK ==
  /\ pc \in {"start", "validated", "polling", "polled", "done"}
  /\ Params.isnil \in BOOLEAN
  /\ Secrets.isnil \in BOOLEAN

\* ------------------------------------------------------------ properties
Count(log, x) == Cardinality({i \in DOMAIN log : log[i] = x})
Written(kind) == Cardinality({i \in DOMAIN out : out[i].kind = kind})
Reported == out[Len(out)].instance
ProvisionSucceeded == provRet.called /\ provRet.err = NoErr
ValidateReturned == pc # "start"
Conflicting == JsonParams # << >> /\ Len(RawParams) > 0
ParamParsers == {"ParseVariableJSON", "ParseVariableAssignments"}

\* C1: a collaborator call (Provision, WaitForInstance) happens only after
\* Validate has returned no error: none is made before or by Validate, none
\* after Validate returned an error, and so none when the instance name is
\* missing, the param sources conflict, or a param, the JSON or a secret is
\* malformed.
C1_ValidateBeforeProvision ==
  /\ pc \in {"start", "validated"} => calls = << >>
  /\ validateErr # NoErr => calls = << >> /\ pc = "done"
  /\ calls # << >> =>
       /\ ValidateReturned /\ validateErr = NoErr
       /\ Len(args) > 0
       /\ ~Conflicting
       /\ JsonParams # << >> => ParseVariableJSON(JsonParams).err = NoErr
       /\ JsonParams = << >> => ParseVariableAssignments(RawParams).err = NoErr
       /\ ParseKeyMaps(RawSecrets).err = NoErr

C1_Witness ==
  /\ pc = "done" /\ validateErr = NoErr
  /\ Count(calls, "Provision") = 1
  /\ Len(RawSecrets) > 0 /\ Len(RawParams) > 0

\* C2: when the collaborator's Provision returns an error the command is
\* over: Run returns that same error, WaitForInstance is not called even
\* with --wait, and nothing (status line, instance details) is written.
C2_ProvisionErrorAborts ==
  (provRet.called /\ provRet.err # NoErr) =>
     /\ pc = "done"
     /\ runErr = provRet.err
     /\ calls = <<"Provision">>
     /\ out = << >>

C2_Witness == provRet.called /\ provRet.err # NoErr /\ Wait /\ pc = "done"

\* C3: when Provision succeeded and --wait is set, whatever the poller
\* returns the instance details are written exactly once, only after the
\* poller has returned, and Run returns exactly the poller's error.
C3_WaitAlwaysPrints ==
  (ProvisionSucceeded /\ Wait) =>
     /\ pc \in {"polling", "polled"} => Written("details") = 0
     /\ pc = "done" =>
          /\ Count(calls, "WaitForInstance") = 1
          /\ Written("details") = 1
          /\ out[Len(out)].kind = "details"
          /\ runErr = pollErr

C3_Witness ==
  /\ pc = "done" /\ ProvisionSucceeded /\ Wait
  /\ pollErr = ErrPollTimedOut /\ runErr = ErrPollTimedOut
  /\ Written("details") = 1

CallDiscipline ==
  /\ Count(calls, "Provision") <= 1
  /\ Count(calls, "WaitForInstance") <= 1
  /\ Count(calls, "WaitForInstance") = 1 =>
       Wait /\ ProvisionSucceeded /\ calls = <<"Provision", "WaitForInstance">>
  /\ (pc = "done" /\ validateErr = NoErr) => Count(calls, "Provision") = 1

\* C5 as stated: Provision is called exactly once per Run, WaitForInstance
\* at most once, after a successful Provision and only with --wait; without
\* --wait the details are written exactly once, no status line is written
\* and Run returns nil.
C5_RunCallsOnce ==
  /\ CallDiscipline
  /\ (pc = "done" /\ validateErr = NoErr /\ ~Wait) =>
       /\ Written("details") = 1
       /\ Written("status") = 0
       /\ runErr = NoErr

\* C5 amended: as C5, but the details are written exactly once and Run
\* returns nil without --wait only when Provision returned no error (no
\* status line is written without --wait in either case).
C5_RunCallsOnceWhenProvisioned ==
  /\ CallDiscipline
  /\ (pc = "done" /\ validateErr = NoErr /\ ~Wait) =>
       /\ Written("status") = 0
       /\ ProvisionSucceeded => Written("details") = 1 /\ runErr = NoErr

C5_Witness ==
  /\ pc = "done" /\ validateErr = NoErr /\ ~Wait
  /\ ProvisionSucceeded
  /\ Written("details") = 1

\* C6: with a non-empty argument list, a Validate that finds both
\* --params-json and at least one --param returns the conflicting-sources
\* error, whatever the inputs look like, runs no parser, and leaves Params
\* and Secrets as they were.
C6_ConflictingSources ==
  [][(pc = "start" /\ Len(args) > 0 /\ Conflicting) =>
       /\ validateErr' = ErrConflictingParamSources
       /\ parsed' = << >>
       /\ Params' = Params
       /\ Secrets' = Secrets]_vars

C6_Witness ==
  /\ ValidateReturned /\ Len(args) > 0 /\ Conflicting
  /\ ParseVariableJSON(JsonParams).err = NoErr
  /\ ParseVariableAssignments(RawParams).err = NoErr
  /\ validateErr = ErrConflictingParamSources

\* C7: after a Validate that returned no error, exactly one parameter
\* parser has run: Params is ParseVariableJSON(JsonParams) when JsonParams
\* is set, ParseVariableAssignments(RawParams) otherwise (the empty map when
\* there are no tokens); InstanceName is the first argument and Secrets is
\* ParseKeyMaps(RawSecrets).
C7_ValidatedFields ==
  (ValidateReturned /\ validateErr = NoErr) =>
     /\ InstanceName = args[1]
     /\ Cardinality({i \in DOMAIN parsed : parsed[i] \in ParamParsers}) = 1
     /\ JsonParams # << >> =>
          /\ Count(parsed, "ParseVariableJSON") = 1
          /\ Params = ParseVariableJSON(JsonParams).val
     /\ JsonParams = << >> =>
          /\ Count(parsed, "ParseVariableAssignments") = 1
          /\ Params = ParseVariableAssignments(RawParams).val
          /\ RawParams = << >> => Params = Map({})
     /\ ~Params.isnil
     /\ Count(parsed, "ParseKeyMaps") = 1
     /\ Secrets = ParseKeyMaps(RawSecrets).val

C7_Witness ==
  /\ ValidateReturned /\ validateErr = NoErr
  /\ JsonParams # << >>
  /\ Params = Map({<< <<"a">>, <<"b">> >>})
  /\ Len(args) > 1

\* the error the checks yield when run in the documented order
FirstFailingCheck ==
  IF Len(args) = 0 THEN ErrMissingInstanceName
  ELSE IF Conflicting THEN ErrConflictingParamSources
  ELSE IF JsonParams # << >> /\ ParseVariableJSON(JsonParams).err # NoErr
  THEN ErrInvalidParamsJson(ParseVariableJSON(JsonParams).err)
  ELSE IF JsonParams = << >> /\ ParseVariableAssignments(RawParams).err # NoErr
  THEN ErrInvalidParam(ParseVariableAssignments(RawParams).err)
  ELSE IF ParseKeyMaps(RawSecrets).err # NoErr
  THEN ErrInvalidSecret(ParseKeyMaps(RawSecrets).err)
  ELSE NoErr

\* C8: Validate returns the error of the first failing check in the order
\* instance name, conflicting sources, parameter parse, secret parse, and
\* runs no later check: no parser on the first two errors, no secret parser
\* on a parameter error.
C8_FirstFailingCheck ==
  ValidateReturned =>
     /\ validateErr = FirstFailingCheck
     /\ Len(args) = 0 => validateErr = ErrMissingInstanceName
     /\ validateErr \in {ErrMissingInstanceName, ErrConflictingParamSources}
          => parsed = << >>
     /\ (Len(validateErr) = 2
           /\ validateErr[1] \in {"invalid --params-json value", "invalid --param value"})
          => Len(parsed) = 1 /\ parsed[1] \in ParamParsers

C8_Witness ==
  /\ ValidateReturned
  /\ Len(validateErr) = 2 /\ validateErr[1] = "invalid --param value"
  /\ ParseKeyMaps(RawSecrets).err # NoErr

\* C9 as stated: a Validate that returns an error leaves InstanceName,
\* Params and Secrets as they were.
C9_FailedValidateNoEffect ==
  [][(pc = "start" /\ validateErr' # NoErr) =>
       (InstanceName' = InstanceName /\ Params' = Params /\ Secrets' = Secrets)]_vars

\* C9 amended: only the missing-instance-name error leaves all three fields
\* as they were. After any other error InstanceName is the first argument;
\* after the conflicting-sources error Params and Secrets are as they were;
\* after a parameter error Secrets is as it was; after a secret error Params
\* holds the parsed parameters.
C9_FailedValidateEffects ==
  [][(pc = "start" /\ validateErr' # NoErr) =>
       /\ validateErr' = ErrMissingInstanceName =>
            (InstanceName' = InstanceName /\ Params' = Params /\ Secrets' = Secrets)
       /\ validateErr' # ErrMissingInstanceName => InstanceName' = args[1]
       /\ validateErr' = ErrConflictingParamSources =>
            (Params' = Params /\ Secrets' = Secrets)
       /\ (Len(validateErr') = 2 /\ validateErr'[1] # "invalid --secret value") =>
            Secrets' = Secrets
       /\ (Len(validateErr') = 2 /\ validateErr'[1] = "invalid --secret value") =>
            /\ ~Params'.isnil
            /\ Params' = ParseParams(Cmd).val]_vars

C9_Witness ==
  /\ pc = "done"
  /\ Len(validateErr) = 2 /\ validateErr[1] = "invalid --secret value"
  /\ InstanceName = "bananainstance"
  /\ ~Params.isnil /\ Params.m # {}

\* the poller started at time 0: what holds of its timing in every state
PollerTiming ==
  /\ (pc \in {"polled", "done"} /\ Count(calls, "WaitForInstance") = 1) =>
       now <= Timeout + Interval
  /\ \A i \in 2..Len(queryTimes) : queryTimes[i] - queryTimes[i-1] >= Interval
  /\ (pc # "polling" /\ lastQuery = "error" /\ now < Timeout) =>
       pollErr = ErrPollCancelled

\* C10: every wait terminates, whatever the collaborator answers; the poller
\* returns no later than start + timeout + interval, two consecutive status
\* queries are at least one interval apart, and a failed query before the
\* deadline does not end the loop.
C10_PollerTerminates ==
  /\ []PollerTiming
  /\ (pc = "polling") ~> (pc = "done")

C10_Witness ==
  /\ pc = "done"
  /\ pollErr = ErrPollTimedOut
  /\ Len(queryTimes) >= 2
  /\ now >= Timeout

====
